---- MODULE Spec2Model ----
(***************************************************************************)
(* Model of app.py: a Streamlit expense/income tracker.  Every user        *)
(* interaction reruns main(): the entry list and the settings are loaded   *)
(* from their JSON files, then the selected page runs, and a page that     *)
(* mutates the list writes the whole list back.                            *)
(*                                                                         *)
(* A Python dict is a record whose domain is the dict's key set, a JSON    *)
(* object is a record from member names to JSON token texts; a Python      *)
(* float is PyFloat(n), a Python int PyInt(n).  Amounts are whole forints. *)
(***************************************************************************)
EXTENDS Integers, Sequences, FiniteSets, TLC

VARIABLES
    data_file,      \* content of DATA_FILE (data/koltsegek.json)
    settings_file,  \* content of SETTINGS_FILE (data/beallitasok.json)
    data,           \* main(): data = load_data()
    settings,       \* main(): settings = load_settings()
    pc,             \* "var": waiting for an interaction; "oldal": main() has loaded, page not yet run
    be,             \* widget values of the run (the inputs of the page)
    ki              \* what the run displayed, raised and saved

vars == <<data_file, settings_file, data, settings, pc, be, ki>>

\* Largest number of entries the store holds in the model.
MaxLen == 2

-----------------------------------------------------------------------------
(* Python values and their JSON texts (json.dump / json.load)              *)

PyFloat(n) == [tip |-> "float", n |-> n]
PyInt(n) == [tip |-> "int", n |-> n]

\* Numbers that occur in the model's files.
Szamok == {-1, 0, 4, 5, 6, 7}
PySzamok == {PyFloat(n) : n \in Szamok} \cup {PyInt(n) : n \in Szamok}

\* Strings are written without accents ("Etkezes" for "Étkezés")
Kategoriak == {"Etkezes", "Fizetes"}
Megjegyzesek == {"", "ebed"}
Tipusok == {"kiadas", "bevetel"}

\* datetime.date values of the model
Date(ev, ho, nap) == [ev |-> ev, ho |-> ho, nap |-> nap]
Datumok == {Date(2024, 1, 10), Date(2024, 2, 5)}
SzuroDatumok == Datumok

Ketjegy(n) == IF n < 10 THEN "0" \o ToString(n) ELSE ToString(n)

\* date.isoformat(): "YYYY-MM-DD"
isoformat(d) == ToString(d.ev) \o "-" \o Ketjegy(d.ho) \o "-" \o Ketjegy(d.nap)

\* pd.to_datetime(s).dt.date on an ISO text: the date whose ISO text is s
to_date(s) == CHOOSE d \in SzuroDatumok : isoformat(d) = s

PySzovegek == Kategoriak \cup Megjegyzesek \cup Tipusok \cup {isoformat(d) : d \in Datumok}

\* json.dump of a float writes repr(float) ("4.0"), of an int its digits ("4")
json_szam(v) == IF v.tip = "float" THEN ToString(v.n) \o ".0" ELSE ToString(v.n)

\* json.dump of a str with ensure_ascii=False: the text in double quotes
json_str(s) == "\"" \o s \o "\""

\* json.load of a number token: a token with a fraction part is a float, else an int
load_szam(tok) == CHOOSE v \in PySzamok : json_szam(v) = tok

\* json.load of a string token
load_str(tok) == CHOOSE s \in PySzovegek : json_str(s) = tok

SzamTokenek == {json_szam(v) : v \in PySzamok}

\* Variant: the dump of a dict leaves the "tipus" member out
json_dump_dict_tipus_nelkul(t) ==
    [k \in DOMAIN t \ {"tipus"} |->
        IF k = "osszeg" THEN json_szam(t[k]) ELSE json_str(t[k])]

\* json.dump of one dict of the list: every key becomes a member, in place
json_dump_dict(t) ==
    [k \in DOMAIN t |-> IF k = "osszeg" THEN json_szam(t[k]) ELSE json_str(t[k])]

\* json.load of one array element.  An object becomes a dict; anything else
\* becomes the Python value of its own type.
json_load_elem(e) ==
    CASE e.j = "object" ->
            [k \in DOMAIN e.tagok |->
                IF e.tagok[k] \in SzamTokenek THEN load_szam(e.tagok[k])
                                              ELSE load_str(e.tagok[k])]
      [] e.j = "number" -> [py |-> "int", betuk |-> e.betuk]
      [] e.j = "string" -> [py |-> "str", betuk |-> e.betuk]
      [] e.j = "array"  -> [py |-> "list", elemek |-> e.elemek]
      [] e.j = "true"   -> [py |-> "bool", betuk |-> e.betuk]
      [] OTHER          -> [py |-> "NoneType", betuk |-> e.betuk]

is_dict(t) == "py" \notin DOMAIN t

\* The characters of the key "tipus", for Python's substring test on a str
TipusBetuk == <<"t", "i", "p", "u", "s">>

Reszsorozat(kis, nagy) ==
    \E k \in 0..(Len(nagy) - Len(kis)) :
        \A i \in 1..Len(kis) : nagy[k + i] = kis[i]

\* Python's `"tipus" in t`: key test on a dict, substring test on a str,
\* element test on a list; any other type is not iterable (TypeError).
in_raises(t) == ~is_dict(t) /\ t.py \notin {"str", "list"}

tipus_in(t) ==
    IF is_dict(t) THEN "tipus" \in DOMAIN t
    ELSE IF t.py = "str" THEN Reszsorozat(TipusBetuk, t.betuk)
    ELSE \E i \in 1..Len(t.elemek) : t.elemek[i] = TipusBetuk

\* Python's `t["tipus"] = "kiadas"`: only a dict accepts a str key
setitem_raises(t) == ~is_dict(t)

setitem_tipus(t) ==
    [k \in DOMAIN t \cup {"tipus"} |-> IF k = "tipus" THEN "kiadas" ELSE t[k]]

Ok(v) == [kivetel |-> "", ertek |-> v]
Raise(nev) == [kivetel |-> nev, ertek |-> <<>>]

\* Variant: the kind is written over every record, also one that has a kind
backfill_felulir(t) == setitem_tipus(t)

\* The back-fill loop of load_data over the parsed list
backfill(t) == IF tipus_in(t) THEN t ELSE setitem_tipus(t)

backfill_raises(t) == in_raises(t) \/ (~tipus_in(t) /\ setitem_raises(t))

load_data(f) ==
    IF f.allapot = "hianyzik" THEN Ok(<<>>)
    ELSE IF f.allapot = "nem_utf8" THEN Raise("UnicodeDecodeError")
    ELSE IF f.allapot = "nem_json" THEN Ok(<<>>)
    ELSE IF f.gyoker # "array" THEN Ok(<<>>)
    ELSE LET parsed == [i \in 1..Len(f.elemek) |-> json_load_elem(f.elemek[i])]
         IN  IF \E i \in 1..Len(parsed) : backfill_raises(parsed[i])
             THEN Raise("TypeError")
             ELSE Ok([i \in 1..Len(parsed) |-> backfill(parsed[i])])

\* save_data: the whole list, one JSON object per dict, overwrites the file
save_data(lista) ==
    [allapot |-> "json", gyoker |-> "array",
     elemek |-> [i \in 1..Len(lista) |-> [j |-> "object", tagok |-> json_dump_dict(lista[i])]]]

\* load_settings / save_settings: a single JSON object
load_settings(f) ==
    IF f.allapot = "hianyzik" THEN Ok([x \in {} |-> x])
    ELSE IF f.allapot = "nem_utf8" THEN Raise("UnicodeDecodeError")
    ELSE IF f.allapot = "nem_json" THEN Ok([x \in {} |-> x])
    ELSE IF f.gyoker # "object" THEN Ok([x \in {} |-> x])
    ELSE Ok([k \in DOMAIN f.tagok |-> load_szam(f.tagok[k])])

save_settings(s) ==
    [allapot |-> "json", gyoker |-> "object",
     tagok |-> [k \in DOMAIN s |-> json_szam(s[k])]]

-----------------------------------------------------------------------------
(* File contents                                                            *)

Hianyzik == [allapot |-> "hianyzik", gyoker |-> ""]
NemUtf8 == [allapot |-> "nem_utf8", gyoker |-> ""]
NemJson == [allapot |-> "nem_json", gyoker |-> ""]
JsonGyoker(g) == [allapot |-> "json", gyoker |-> g]
JsonTomb(elemek) == [allapot |-> "json", gyoker |-> "array", elemek |-> elemek]


\* Entries as the application writes them (oldal_uj_tetel, the edit form)
Tetel(datum, osszeg, kategoria, megjegyzes, tipus) ==
    [datum |-> isoformat(datum), osszeg |-> PyFloat(osszeg), kategoria |-> kategoria,
     megjegyzes |-> megjegyzes, tipus |-> tipus]

\* (date, amount, note) fillings of the forms; the amount widget has min_value=0.0
Bevitelek ==
    {<<Date(2024, 1, 10), 4, "">>, <<Date(2024, 2, 5), 6, " ebed ">>,
     <<Date(2024, 2, 5), 0, "">>}

\* str.strip() on the notes of the model
strip(s) == IF s = " ebed " THEN "ebed" ELSE s

AlkalmazasTetelek ==
    {Tetel(b[1], b[2], k, strip(b[3]), t) :
        b \in {x \in Bevitelek : x[2] > 0}, k \in Kategoriak, t \in Tipusok}

\* Records of an older version of the file: no "tipus" member, integer amounts
RegiTetelek ==
    {[datum |-> isoformat(d), osszeg |-> PyInt(4), kategoria |-> "Etkezes", megjegyzes |-> ""] :
        d \in Datumok}

SeqMax(S, n) == UNION {[1..k -> S] : k \in 0..n}

\* Entry files a run can start from: missing, or a list of well-formed records
TetelFajlok ==
    {Hianyzik} \cup {save_data(l) : l \in SeqMax(AlkalmazasTetelek \cup RegiTetelek, MaxLen)}

\* Budgets typed into the settings page (min_value=0.0)
Keretek == {0, 5, 7}

BeallitasFajlok ==
    {Hianyzik} \cup {save_settings([havi_keret |-> PyFloat(k)]) : k \in Keretek}

\* Values of date.today()
Mak == {Date(2024, 1, 31), Date(2024, 2, 15)}

-----------------------------------------------------------------------------
(* DataFrame helpers                                                        *)

\* get_dataframe: one row per dict, index = position in the list (0-based),
\* datum parsed to a date, osszeg cast to float
get_dataframe(lista) ==
    [i \in 1..Len(lista) |->
        [index |-> i - 1,
         datum |-> to_date(lista[i].datum),
         osszeg |-> lista[i].osszeg.n,
         kategoria |-> lista[i].kategoria,
         megjegyzes |-> lista[i].megjegyzes,
         tipus |-> IF "tipus" \in DOMAIN lista[i] THEN lista[i].tipus
                   ELSE IF \A j \in 1..Len(lista) : "tipus" \notin DOMAIN lista[j]
                        THEN "kiadas" ELSE "NaN"]]

\* df["id"] = df.index
with_id(df) ==
    [i \in 1..Len(df) |->
        [id |-> df[i].index, index |-> df[i].index, datum |-> df[i].datum,
         osszeg |-> df[i].osszeg, kategoria |-> df[i].kategoria,
         megjegyzes |-> df[i].megjegyzes, tipus |-> df[i].tipus]]

\* date comparison a <= b
DateLE(a, b) ==
    \/ a.ev < b.ev
    \/ a.ev = b.ev /\ a.ho < b.ho
    \/ a.ev = b.ev /\ a.ho = b.ho /\ a.nap <= b.nap

\* pd.Period of a date at monthly frequency
honap(d) == <<d.ev, d.ho>>

\* Variant: the end date is excluded
maszk_veg_kizarva(r, kezdo, veg, tipus_szuro, kategoria_szuro) ==
    /\ DateLE(kezdo, r.datum)
    /\ DateLE(r.datum, veg) /\ r.datum # veg
    /\ (tipus_szuro # {} => r.tipus \in tipus_szuro)
    /\ (kategoria_szuro # {} => r.kategoria \in kategoria_szuro)

\* The filter mask of oldal_tetelek_listaja for one row
maszk(r, kezdo, veg, tipus_szuro, kategoria_szuro) ==
    /\ DateLE(kezdo, r.datum)
    /\ DateLE(r.datum, veg)
    /\ (tipus_szuro # {} => r.tipus \in tipus_szuro)
    /\ (kategoria_szuro # {} => r.kategoria \in kategoria_szuro)

\* Variant: the filtered frame is re-indexed, id becomes the position in the view
szures_reset_index(df, kezdo, veg, tipus_szuro, kategoria_szuro) ==
    LET s == SelectSeq(df, LAMBDA r : maszk(r, kezdo, veg, tipus_szuro, kategoria_szuro))
    IN  [i \in 1..Len(s) |-> [s[i] EXCEPT !.id = i - 1]]

\* df[maszk]: the rows that pass, in list order
szures(df, kezdo, veg, tipus_szuro, kategoria_szuro) ==
    SelectSeq(df, LAMBDA r : maszk(r, kezdo, veg, tipus_szuro, kategoria_szuro))

\* sort_values("datum", ascending=False) with the default (unstable) sort kind:
\* any arrangement of the rows with non-increasing dates
sort_values_desc(rows) ==
    LET n == Len(rows)
        perms == {p \in [1..n -> 1..n] : \A i, j \in 1..n : i # j => p[i] # p[j]}
    IN  {[i \in 1..n |-> rows[p[i]]] :
            p \in {q \in perms :
                     \A i, j \in 1..n : i < j => DateLE(rows[q[j]].datum, rows[q[i]].datum)}}

RECURSIVE osszeg_sum(_, _)
\* rows.loc[rows["tipus"] == tipus, "osszeg"].sum()
osszeg_sum(rows, tipus) ==
    IF rows = <<>> THEN 0
    ELSE (IF Head(rows).tipus = tipus THEN Head(rows).osszeg ELSE 0)
         + osszeg_sum(Tail(rows), tipus)

\* Variant: the balance with its operands swapped
egyenleg_forditva(bevetel, kiadasok) == kiadasok - bevetel

\* egyenleg = bevetel - kiadasok
egyenleg(bevetel, kiadasok) == bevetel - kiadasok

\* The three metrics of a page
osszegzes(rows) ==
    [kiadasok |-> osszeg_sum(rows, "kiadas"),
     bevetel |-> osszeg_sum(rows, "bevetel"),
     egyenleg |-> egyenleg(osszeg_sum(rows, "bevetel"), osszeg_sum(rows, "kiadas"))]

\* float(settings.get("havi_keret", 0.0))
havi_keret_of(s) == IF "havi_keret" \in DOMAIN s THEN s.havi_keret.n ELSE 0

\* Variant: the warning starts at 80% instead of above it
keret_allapot_80(havi_kiadas, havi_keret) ==
    IF havi_keret > 0
    THEN IF havi_kiadas > havi_keret THEN "exceeded"
         ELSE IF 10 * havi_kiadas >= 8 * havi_keret THEN "warning"
         ELSE "normal"
    ELSE "unset"

\* The budget branch of oldal_dashboard and oldal_statisztika.  The code
\* compares floats, havi_kiadas > havi_keret * 0.8; on whole-forint amounts
\* that is the exact comparison 10 * havi_kiadas > 8 * havi_keret.
keret_allapot(havi_kiadas, havi_keret) ==
    IF havi_keret > 0
    THEN IF havi_kiadas > havi_keret THEN "exceeded"
         ELSE IF 10 * havi_kiadas > 8 * havi_keret THEN "warning"
         ELSE "normal"
    ELSE "unset"

\* Rows of the current calendar month
aktualis(df, today) == SelectSeq(df, LAMBDA r : honap(r.datum) = honap(today))

-----------------------------------------------------------------------------
(* main(): every interaction reruns the script from the top                 *)

BeUres == [gomb |-> ""]
KiUres == [oldal |-> "", kivetel |-> "", mentve |-> FALSE]

\* main(), lines 538-539: data = load_data(); settings = load_settings().
\* An exception of either call ends the run.
Main_Betoltes ==
    /\ pc = "var"
    /\ LET d == load_data(data_file)
           s == load_settings(settings_file)
       IN  IF d.kivetel # "" \/ s.kivetel # ""
           THEN /\ ki' = [oldal |-> "main", mentve |-> FALSE,
                          kivetel |-> IF d.kivetel # "" THEN d.kivetel ELSE s.kivetel]
                /\ pc' = "var"
                /\ data' = <<>>
                /\ settings' = [x \in {} |-> x]
           ELSE /\ ki' = KiUres
                /\ pc' = "oldal"
                /\ data' = d.ertek
                /\ settings' = s.ertek
    /\ be' = BeUres
    /\ UNCHANGED <<data_file, settings_file>>

-----------------------------------------------------------------------------
(* oldal_uj_tetel                                                           *)

\* Category lists of the forms (a sample of the lists in the code)
alap_kategoriak(tipus_kod) == IF tipus_kod = "kiadas" THEN {"Etkezes"} ELSE {"Fizetes"}

\* Variant: only a negative amount is rejected
osszeg_elutasitva_negativ(osszeg) == osszeg < 0

\* `if osszeg <= 0:` of both forms
osszeg_elutasitva(osszeg) == osszeg <= 0

\* The form is submitted ("Hozzáadás")
UjTetel ==
    /\ pc = "oldal"
    /\ \E tipus_kod \in Tipusok, b \in Bevitelek :
        \E kategoria \in alap_kategoriak(tipus_kod) :
            LET datum == b[1]
                osszeg == b[2]
                uj_tetel == Tetel(datum, osszeg, kategoria, strip(b[3]), tipus_kod)
            IN  /\ be' = [gomb |-> "hozzaad", tipus_kod |-> tipus_kod, datum |-> datum,
                          osszeg |-> osszeg, kategoria |-> kategoria, megjegyzes |-> b[3]]
                /\ IF osszeg_elutasitva(osszeg)
                   THEN /\ ki' = [oldal |-> "uj_tetel", kivetel |-> "", mentve |-> FALSE,
                                  uzenet |-> "error"]
                        /\ UNCHANGED <<data, data_file>>
                   ELSE /\ Len(data) < MaxLen
                        /\ data' = Append(data, uj_tetel)
                        /\ data_file' = save_data(data')
                        /\ ki' = [oldal |-> "uj_tetel", kivetel |-> "", mentve |-> TRUE,
                                  uzenet |-> "success"]
    /\ pc' = "var"
    /\ UNCHANGED <<settings, settings_file>>

-----------------------------------------------------------------------------
(* oldal_tetelek_listaja                                                    *)

\* Filter widgets: type multiselect, the two date inputs, category multiselect
\* (its options are the categories present in the list)
Szurok(df) ==
    [tipus_szuro : SUBSET Tipusok, kezdo : SzuroDatumok, veg : SzuroDatumok,
     kategoria_szuro : SUBSET {df[i].kategoria : i \in 1..Len(df)}]

\* The filters used together with an edit or a delete
SzerkesztoSzurok(df) ==
    {f \in Szurok(df) :
        /\ f.tipus_szuro \in {Tipusok, {"bevetel"}}
        /\ f.kezdo = Date(2024, 1, 10)
        /\ f.veg \in Datumok
        /\ f.kategoria_szuro \subseteq {"Etkezes"}}

\* szurt = df[maszk].sort_values("datum", ascending=False)
szurt_nezetek(lista, f) ==
    sort_values_desc(
        szures(with_id(get_dataframe(lista)), f.kezdo, f.veg, f.tipus_szuro, f.kategoria_szuro))

\* data[selected_id][...] = ... for the five fields of the edit form
modosit(lista, selected_id, uj) ==
    [lista EXCEPT ![selected_id + 1] =
        [k \in DOMAIN @ \cup DOMAIN uj |-> IF k \in DOMAIN uj THEN uj[k] ELSE @[k]]]

\* Variant: data.pop() removes the last record whatever is selected
pop_utolso(lista, selected_id) == SubSeq(lista, 1, Len(lista) - 1)

\* data.pop(selected_id)
pop(lista, selected_id) ==
    [i \in 1..(Len(lista) - 1) |-> IF i <= selected_id THEN lista[i] ELSE lista[i + 1]]

\* selectbox options: the ids of the rows of szurt
id_opciok(szurt) == {szurt[i].id : i \in 1..Len(szurt)}

\* selected_row = szurt[szurt["id"] == selected_id].iloc[0]
selected_row(szurt, selected_id) ==
    szurt[CHOOSE i \in 1..Len(szurt) :
            /\ szurt[i].id = selected_id
            /\ \A j \in 1..(i - 1) : szurt[j].id # selected_id]

\* Options of the category selectbox of the edit form
kategoriak_val(tipus_kod, row) == alap_kategoriak(tipus_kod) \cup {row.kategoria}

\* The page is shown, no button is pressed
Lista_Megtekint ==
    /\ pc = "oldal"
    /\ IF data = <<>>
       THEN /\ be' = BeUres
            /\ ki' = [oldal |-> "lista", kivetel |-> "", mentve |-> FALSE, uzenet |-> "info"]
       ELSE \E f \in Szurok(get_dataframe(data)) :
            \E szurt \in szurt_nezetek(data, f) :
                /\ be' = [gomb |-> "", szuro |-> f]
                /\ ki' = [oldal |-> "lista", kivetel |-> "", mentve |-> FALSE,
                          uzenet |-> IF szurt = <<>> THEN "info" ELSE "",
                          szurt |-> szurt, osszegzes |-> osszegzes(szurt)]
    /\ pc' = "var"
    /\ UNCHANGED <<data, data_file, settings, settings_file>>

\* "Változtatások mentése" is pressed on a selected row
Lista_Modosit ==
    /\ pc = "oldal"
    /\ data # <<>>
    /\ \E f \in SzerkesztoSzurok(get_dataframe(data)) :
       \E szurt \in szurt_nezetek(data, f) :
       \E selected_id \in id_opciok(szurt) :
       \E tipus_kod \in Tipusok, b \in Bevitelek :
       \E kategoria_uj \in kategoriak_val(tipus_kod, selected_row(szurt, selected_id)) :
           LET datum_uj == b[1]
               osszeg_uj == b[2]
               uj == Tetel(datum_uj, osszeg_uj, kategoria_uj, strip(b[3]), tipus_kod)
           IN  /\ be' = [gomb |-> "ment", szuro |-> f, selected_id |-> selected_id,
                         tipus_kod |-> tipus_kod, datum |-> datum_uj, osszeg |-> osszeg_uj,
                         kategoria |-> kategoria_uj, megjegyzes |-> b[3]]
               /\ IF osszeg_elutasitva(osszeg_uj)
                  THEN /\ ki' = [oldal |-> "lista", kivetel |-> "", mentve |-> FALSE,
                                 uzenet |-> "error", szurt |-> szurt,
                                 osszegzes |-> osszegzes(szurt)]
                       /\ UNCHANGED <<data, data_file>>
                  ELSE /\ data' = modosit(data, selected_id, uj)
                       /\ data_file' = save_data(data')
                       /\ ki' = [oldal |-> "lista", kivetel |-> "", mentve |-> TRUE,
                                 uzenet |-> "success", szurt |-> szurt,
                                 osszegzes |-> osszegzes(szurt)]
    /\ pc' = "var"
    /\ UNCHANGED <<settings, settings_file>>

\* "Kiválasztott tétel törlése" is pressed on a selected row
Lista_Torol ==
    /\ pc = "oldal"
    /\ data # <<>>
    /\ \E f \in SzerkesztoSzurok(get_dataframe(data)) :
       \E szurt \in szurt_nezetek(data, f) :
       \E selected_id \in id_opciok(szurt) :
           /\ be' = [gomb |-> "torol", szuro |-> f, selected_id |-> selected_id]
           /\ data' = pop(data, selected_id)
           /\ data_file' = save_data(data')
           /\ ki' = [oldal |-> "lista", kivetel |-> "", mentve |-> TRUE,
                     uzenet |-> "success", szurt |-> szurt, osszegzes |-> osszegzes(szurt)]
    /\ pc' = "var"
    /\ UNCHANGED <<settings, settings_file>>

-----------------------------------------------------------------------------
(* oldal_statisztika, oldal_dashboard, oldal_beallitasok                    *)

\* .rename(columns={"kiadas": "Kiadas", "bevetel": "Bevetel"})
rename(tipus) ==
    CASE tipus = "kiadas" -> "Kiadas"
      [] tipus = "bevetel" -> "Bevetel"
      [] OTHER -> tipus

\* df.groupby(["honap", "tipus"])["osszeg"].sum().unstack(fill_value=0).rename(...):
\* a row per month present, a column per kind present, 0 where a month has
\* no entry of a kind; then the derived column
\* by_month["Egyenleg"] = by_month.get("Bevetel", 0) - by_month.get("Kiadas", 0)
by_month(df) ==
    LET honapok == {honap(df[i].datum) : i \in 1..Len(df)}
        tipusok == {df[i].tipus : i \in 1..Len(df)}
        havi(h, t) == osszeg_sum(SelectSeq(df, LAMBDA r : honap(r.datum) = h), t)
        get(h, t) == IF t \in tipusok THEN havi(h, t) ELSE 0
    IN  [h \in honapok |->
            [c \in {rename(t) : t \in tipusok} \cup {"Egyenleg"} |->
                IF c = "Egyenleg" THEN get(h, "bevetel") - get(h, "kiadas")
                ELSE havi(h, CHOOSE t \in tipusok : rename(t) = c)]]

\* by_month[["Kiadas", "Bevetel", "Egyenleg"]] raises KeyError when a column is missing
by_month_oszlopok(df) == {rename(df[i].tipus) : i \in 1..Len(df)} \cup {"Egyenleg"}

chart_raises(df) == ~({"Kiadas", "Bevetel", "Egyenleg"} \subseteq by_month_oszlopok(df))

Statisztika ==
    /\ pc = "oldal"
    /\ \E today \in Mak :
        /\ be' = [gomb |-> "", today |-> today]
        /\ IF data = <<>>
           THEN ki' = [oldal |-> "statisztika", kivetel |-> "", mentve |-> FALSE,
                       uzenet |-> "info"]
           ELSE LET df == get_dataframe(data)
                    havi_kiadas == osszeg_sum(aktualis(df, today), "kiadas")
                    havi_keret == havi_keret_of(settings)
                IN  ki' = [oldal |-> "statisztika", mentve |-> FALSE, uzenet |-> "",
                           osszegzes |-> osszegzes(df),
                           havi_kiadas |-> havi_kiadas,
                           keret |-> keret_allapot(havi_kiadas, havi_keret),
                           kivetel |-> IF chart_raises(df) THEN "KeyError" ELSE "",
                           by_month |-> IF chart_raises(df) THEN <<>> ELSE by_month(df)]
    /\ pc' = "var"
    /\ UNCHANGED <<data, data_file, settings, settings_file>>

\* The metrics and the budget section of the dashboard (the two tables below
\* them only display rows)
Dashboard ==
    /\ pc = "oldal"
    /\ \E today \in Mak :
        /\ be' = [gomb |-> "", today |-> today]
        /\ IF data = <<>>
           THEN ki' = [oldal |-> "dashboard", kivetel |-> "", mentve |-> FALSE,
                       uzenet |-> "info"]
           ELSE LET df_akt == aktualis(get_dataframe(data), today)
                    havi == osszegzes(df_akt)
                    havi_keret == havi_keret_of(settings)
                IN  ki' = [oldal |-> "dashboard", kivetel |-> "", mentve |-> FALSE,
                           uzenet |-> "", osszegzes |-> havi,
                           havi_kiadas |-> havi.kiadasok,
                           keret |-> keret_allapot(havi.kiadasok, havi_keret)]
    /\ pc' = "var"
    /\ UNCHANGED <<data, data_file, settings, settings_file>>

\* "Keret mentése" is pressed
Beallitasok ==
    /\ pc = "oldal"
    /\ \E uj_keret \in Keretek :
        /\ be' = [gomb |-> "keret_mentese", uj_keret |-> uj_keret]
        /\ settings' = [k \in DOMAIN settings \cup {"havi_keret"} |->
                            IF k = "havi_keret" THEN PyFloat(uj_keret) ELSE settings[k]]
        /\ settings_file' = save_settings(settings')
        /\ ki' = [oldal |-> "beallitasok", kivetel |-> "", mentve |-> TRUE,
                  uzenet |-> "success"]
    /\ pc' = "var"
    /\ UNCHANGED <<data, data_file>>

-----------------------------------------------------------------------------
(* Specifications                                                           *)

InitKozos ==
    /\ data = <<>>
    /\ settings = [x \in {} |-> x]
    /\ pc = "var"
    /\ be = BeUres
    /\ ki = KiUres

\* The application creating, editing and deleting entries
Init ==
    /\ data_file \in TetelFajlok
    /\ settings_file = Hianyzik
    /\ InitKozos

Next ==
    \/ Main_Betoltes
    \/ UjTetel
    \/ Lista_Modosit
    \/ Lista_Torol

Spec == Init /\ [][Next]_vars

\* The read-only pages and the settings page over every store content
InitOldalak ==
    /\ data_file \in TetelFajlok
    /\ settings_file \in BeallitasFajlok
    /\ InitKozos

NextOldalak ==
    \/ Main_Betoltes
    \/ Lista_Megtekint
    \/ Statisztika
    \/ Dashboard
    \/ Beallitasok

SpecOldalak == InitOldalak /\ [][NextOldalak]_vars

\* load_data over every kind of file content
NemObjektumok ==
    {[j |-> "number", betuk |-> <<"1">>],
     [j |-> "string", betuk |-> <<"a", "b", "c">>],
     [j |-> "string", betuk |-> <<"a", "t", "i", "p", "u", "s">>],
     [j |-> "array", elemek |-> <<>>],
     [j |-> "array", elemek |-> <<TipusBetuk>>],
     [j |-> "null", betuk |-> <<>>],
     [j |-> "true", betuk |-> <<>>]}

Objektumok ==
    {[j |-> "object", tagok |-> json_dump_dict(t)] : t \in AlkalmazasTetelek \cup RegiTetelek}

TetszolegesFajlok ==
    {Hianyzik, NemUtf8, NemJson}
    \cup {JsonGyoker(g) : g \in {"object", "number", "string", "null"}}
    \cup {JsonTomb(l) : l \in SeqMax(Objektumok \cup NemObjektumok, MaxLen)}

InitLoad ==
    /\ data_file \in TetszolegesFajlok
    /\ settings_file = Hianyzik
    /\ InitKozos

NextLoad == Main_Betoltes

SpecLoad == InitLoad /\ [][NextLoad]_vars

-----------------------------------------------------------------------------
(* Properties                                                               *)

\* The day number of a date and of an ISO date text, for comparisons
Napszam(d) == d.ev * 10000 + d.ho * 100 + d.nap
IsoNapszam(txt) == Napszam(CHOOSE d \in Datumok : isoformat(d) = txt)
IsoHonap(txt) == IsoNapszam(txt) \div 100

RECURSIVE OsszegHalmaz(_, _)
\* The sum of the amounts of the records of lista at the positions I
OsszegHalmaz(I, lista) ==
    IF I = {} THEN 0
    ELSE LET i == CHOOSE x \in I : TRUE
         IN  lista[i].osszeg.n + OsszegHalmaz(I \ {i}, lista)

Pozik(I, lista, tipus) == {i \in I : lista[i].tipus = tipus}

\* A displayed row shows the fields of a record of the list
SorEgyezik(r, t) ==
    /\ isoformat(r.datum) = t.datum
    /\ r.osszeg = t.osszeg.n
    /\ r.kategoria = t.kategoria
    /\ r.megjegyzes = t.megjegyzes
    /\ r.tipus = t.tipus

\* C1: load_data fails soft for every content of the entry file (missing,
\* not JSON, JSON of any other shape): the call returns a list and raises
\* nothing to main().
C1_LoadFailsSoft == ki.kivetel = ""

\* C2: after save_data(L), load_data() returns a list equal to L, record by
\* record and field by field.
C2_RoundTrip == ki.mentve => load_data(data_file) = Ok(data)

C2_Witness ==
    /\ ki.mentve
    /\ Len(data) = 2
    /\ \E i, j \in 1..Len(data) :
        /\ data[i].tipus = "bevetel" /\ data[i].megjegyzes = "ebed"
        /\ data[j].osszeg.tip = "int"

\* C3: every record returned by load_data carries a kind; a stored record
\* without the member is returned with kind "kiadas", and every member a
\* stored record has, its kind included, is returned unchanged.
C3_LegacyBackfill ==
    (pc = "oldal" /\ data_file.allapot = "json" /\ data_file.gyoker = "array") =>
        /\ Len(data) = Len(data_file.elemek)
        /\ \A i \in 1..Len(data) :
            data_file.elemek[i].j = "object" =>
                LET stored == data_file.elemek[i].tagok
                IN  /\ DOMAIN data[i] = DOMAIN stored \cup {"tipus"}
                    /\ "tipus" \notin DOMAIN stored => data[i].tipus = "kiadas"
                    /\ \A k \in DOMAIN stored : json_dump_dict(data[i])[k] = stored[k]

C3_Witness ==
    /\ pc = "oldal"
    /\ data_file.allapot = "json" /\ data_file.gyoker = "array"
    /\ Len(data) = 2
    /\ data_file.elemek[1].j = "object" /\ "tipus" \notin DOMAIN data_file.elemek[1].tagok
    /\ data[1].tipus = "kiadas"
    /\ data_file.elemek[2].j = "object" /\ "tipus" \in DOMAIN data_file.elemek[2].tagok
    /\ data[2].tipus = "bevetel"

PersistedPositive ==
    data_file.allapot = "json" =>
        \A i \in 1..Len(data_file.elemek) :
            \E v \in PySzamok : json_szam(v) = data_file.elemek[i].tagok.osszeg /\ v.n > 0

\* C4: a create or an edit submitted with amount <= 0 leaves the in-memory
\* list and the entry file unchanged, and every persisted entry has amount > 0
\* after any sequence of creates, edits and deletes.
C4_NonPositiveRejected ==
    /\ []PersistedPositive
    /\ [][(be'.gomb \in {"hozzaad", "ment"} /\ be'.osszeg <= 0) =>
            (data_file' = data_file /\ data' = data)]_vars

C4_Witness ==
    /\ be.gomb = "ment"
    /\ be.osszeg = 0
    /\ ki.uzenet = "error"
    /\ Len(data) = 2

\* C5: deleting the entry at position i of a list of length n leaves n-1
\* records in memory and on disk: those before i keep position and fields,
\* those after i move one position down with their fields unchanged.
C5_DeleteExact ==
    [][be'.gomb = "torol" =>
        LET i == be'.selected_id + 1
            n == Len(data)
        IN  /\ i \in 1..n
            /\ Len(data') = n - 1
            /\ \A j \in 1..(i - 1) : data'[j] = data[j]
            /\ \A j \in (i + 1)..n : data'[j - 1] = data[j]
            /\ load_data(data_file') = Ok(data')]_vars

C5_Witness ==
    /\ be.gomb = "torol"
    /\ be.selected_id = 0
    /\ Len(ki.szurt) = 2
    /\ ki.szurt[1].id = 1
    /\ Len(data) = 1
    /\ SorEgyezik(ki.szurt[1], data[1])

\* The budget state the claim gives for an amount spent and a budget
KeretElvart(spent, budget) ==
    IF budget = 0 THEN "unset"
    ELSE IF 100 * spent > 100 * budget THEN "exceeded"
    ELSE IF 100 * spent > 80 * budget THEN "warning"
    ELSE "normal"

HaviKiadas(lista, today) ==
    OsszegHalmaz({i \in Pozik(1..Len(lista), lista, "kiadas") :
                    IsoHonap(lista[i].datum) = Napszam(today) \div 100}, lista)

\* C6: where the dashboard or the statistics page reaches its budget section,
\* spent is the sum of the expense amounts of the current calendar month; a
\* budget of 0 yields no check; for a budget > 0 the state is exceeded above
\* 100%, warning above 80% up to 100%, normal otherwise (budget 10000:
\* 8500 warning, 10500 exceeded, 8000 normal).
C6_BudgetCheck ==
    /\ keret_allapot(8500, 10000) = "warning"
    /\ keret_allapot(10500, 10000) = "exceeded"
    /\ keret_allapot(8000, 10000) = "normal"
    /\ (ki.oldal \in {"dashboard", "statisztika"} /\ data # <<>>) =>
        /\ ki.havi_kiadas = HaviKiadas(data, be.today)
        /\ ki.keret = KeretElvart(HaviKiadas(data, be.today), havi_keret_of(settings))

C6_Witness ==
    /\ ki.oldal = "dashboard"
    /\ Len(data) = 2
    /\ ki.keret = "warning"
    /\ havi_keret_of(settings) = 7
    /\ ki.havi_kiadas = 6
    /\ data[1].tipus = "bevetel"
    /\ data[2].tipus = "kiadas"
    /\ IsoHonap(data[1].datum) = IsoHonap(data[2].datum)

ListaNezet == ki.oldal = "lista" /\ data # <<>>

SzurtIdk == {ki.szurt[k].id : k \in 1..Len(ki.szurt)}

DatumTartomanyban(t, f) ==
    /\ Napszam(f.kezdo) <= IsoNapszam(t.datum)
    /\ IsoNapszam(t.datum) <= Napszam(f.veg)

\* C7 as claimed: the listing contains exactly the entries with
\* d1 <= date <= d2 AND kind in K AND category in C.
C7_ConjunctionOfSets ==
    ListaNezet =>
        SzurtIdk = {i - 1 : i \in {x \in 1..Len(data) :
                        /\ DatumTartomanyban(data[x], be.szuro)
                        /\ data[x].tipus \in be.szuro.tipus_szuro
                        /\ data[x].kategoria \in be.szuro.kategoria_szuro}}

\* C7, amended: an empty kind selection or an empty category selection does
\* not restrict; the listing contains exactly the entries with
\* d1 <= date <= d2 AND (K empty or kind in K) AND (C empty or category in C),
\* each once.
C7_ConjunctionEmptyMeansAll ==
    ListaNezet =>
        /\ SzurtIdk = {i - 1 : i \in {x \in 1..Len(data) :
                        /\ DatumTartomanyban(data[x], be.szuro)
                        /\ (be.szuro.tipus_szuro = {}
                            \/ data[x].tipus \in be.szuro.tipus_szuro)
                        /\ (be.szuro.kategoria_szuro = {}
                            \/ data[x].kategoria \in be.szuro.kategoria_szuro)}}
        /\ Cardinality(SzurtIdk) = Len(ki.szurt)

C7_Witness ==
    /\ ListaNezet
    /\ be.szuro.tipus_szuro = {"kiadas"}
    /\ be.szuro.kategoria_szuro = {"Etkezes"}
    /\ be.szuro.kezdo = be.szuro.veg
    /\ Len(data) = 2
    /\ Len(ki.szurt) = 1
    /\ data[1].tipus = "kiadas" /\ data[2].tipus = "kiadas"
    /\ data[1].datum = data[2].datum

\* The positions of the entry set a page sums over
OsszegzettPoziciok ==
    CASE ki.oldal = "lista" -> {id + 1 : id \in SzurtIdk}
      [] ki.oldal = "statisztika" -> 1..Len(data)
      [] OTHER -> {i \in 1..Len(data) : IsoHonap(data[i].datum) = Napszam(be.today) \div 100}

\* C8: for the full or the filtered entry set, the expense total is the sum
\* of its expense amounts, the income total the sum of its income amounts and
\* the balance is income total - expense total; the example of two entries
\* (500 expense, 2000 income) gives 500, 2000 and 1500.
C8_Summation ==
    /\ osszegzes(<<[datum |-> Date(2024, 1, 5), osszeg |-> 500, kategoria |-> "food",
                    tipus |-> "kiadas"],
                   [datum |-> Date(2024, 1, 10), osszeg |-> 2000, kategoria |-> "salary",
                    tipus |-> "bevetel"]>>)
        = [kiadasok |-> 500, bevetel |-> 2000, egyenleg |-> 1500]
    /\ (ki.oldal \in {"lista", "statisztika", "dashboard"} /\ data # <<>>) =>
        LET I == OsszegzettPoziciok
            kiadas == OsszegHalmaz(Pozik(I, data, "kiadas"), data)
            bevetel == OsszegHalmaz(Pozik(I, data, "bevetel"), data)
        IN  /\ ki.osszegzes.kiadasok = kiadas
            /\ ki.osszegzes.bevetel = bevetel
            /\ ki.osszegzes.egyenleg = bevetel - kiadas

C8_Witness ==
    /\ ki.oldal = "lista"
    /\ Len(data) = 2
    /\ Len(ki.szurt) = 2
    /\ ki.osszegzes = [kiadasok |-> 6, bevetel |-> 4, egyenleg |-> -2]

HonapPoziciok(h) == {i \in 1..Len(data) : IsoHonap(data[i].datum) = h[1] * 100 + h[2]}

\* C9: for every non-empty entry list, also one with only expenses or only
\* incomes, the statistics page completes without error and yields for each
\* calendar month with an entry an expense sum, an income sum (0 where there
\* is none) and net = income sum - expense sum.
C9_MonthlyBreakdown ==
    (ki.oldal = "statisztika" /\ data # <<>>) =>
        /\ ki.kivetel = ""
        /\ DOMAIN ki.by_month =
            {<<d.ev, d.ho>> : d \in {x \in Datumok : \E i \in 1..Len(data) : data[i].datum = isoformat(x)}}
        /\ \A h \in DOMAIN ki.by_month :
            LET kiadas == OsszegHalmaz(Pozik(HonapPoziciok(h), data, "kiadas"), data)
                bevetel == OsszegHalmaz(Pozik(HonapPoziciok(h), data, "bevetel"), data)
            IN  /\ ki.by_month[h]["Kiadas"] = kiadas
                /\ ki.by_month[h]["Bevetel"] = bevetel
                /\ ki.by_month[h]["Egyenleg"] = bevetel - kiadas

\* C10: the id offered for a row of the filtered, date-descending view is the
\* position of that record in the in-memory list; an edit through the view
\* overwrites the five fields of exactly that record, keeps the length and
\* every other record, and a delete removes exactly that record; the result
\* is what is persisted.
C10_IndexIdentity ==
    [][be'.gomb \in {"ment", "torol"} =>
        LET szurt == ki'.szurt
            sel == be'.selected_id
        IN  /\ \A k \in 1..Len(szurt) :
                /\ szurt[k].id \in 0..(Len(data) - 1)
                /\ SorEgyezik(szurt[k], data[szurt[k].id + 1])
            /\ \E k \in 1..Len(szurt) : szurt[k].id = sel
            /\ (be'.gomb = "ment" /\ be'.osszeg > 0) =>
                /\ Len(data') = Len(data)
                /\ \A j \in 1..Len(data) : j # sel + 1 => data'[j] = data[j]
                /\ data'[sel + 1] =
                      [datum |-> isoformat(be'.datum), osszeg |-> PyFloat(be'.osszeg),
                       kategoria |-> be'.kategoria, megjegyzes |-> strip(be'.megjegyzes),
                       tipus |-> be'.tipus_kod]
                /\ load_data(data_file') = Ok(data')
            /\ be'.gomb = "torol" =>
                /\ Len(data') = Len(data) - 1
                /\ \A j \in 1..Len(data') :
                      data'[j] = IF j < sel + 1 THEN data[j] ELSE data[j + 1]
                /\ load_data(data_file') = Ok(data')]_vars

C10_Witness ==
    /\ be.gomb = "ment"
    /\ ki.mentve
    /\ be.szuro.tipus_szuro = {"bevetel"}
    /\ be.selected_id = 1
    /\ Len(ki.szurt) = 1
    /\ Len(data) = 2
    /\ data[1].tipus = "kiadas"
    /\ data[2] = Tetel(Date(2024, 2, 5), 6, "Fizetes", "ebed", "kiadas")
    /\ ki.szurt[1].osszeg = 4

====
